---------------------------- MODULE Spec2Model ----------------------------
(***************************************************************************)
(* Model of the Xbox-Lego RC bridge: the BLEManager (src/src/ble_manager   *)
(* .cpp), the application state machine of src/src/main.cpp (setup, loop,  *)
(* handleError) and the NimBLE transport they drive.                       *)
(*                                                                         *)
(* Two execution contexts exist: the polling context (setup, then loop),   *)
(* whose position is pc, and the transport's host task, which delivers     *)
(* advertisement results, the scan-complete event and disconnect           *)
(* notifications at any time.  Blocking calls of the polling context       *)
(* (connect, delay) are split at the blocking point so that callbacks      *)
(* interleave with them.                                                   *)
(*                                                                         *)
(* Spec     is the program: setup, loop and the callbacks.                 *)
(* SpecMgr  is the BLEManager driven through its public interface in any   *)
(*          order, with the same callbacks.                                *)
(* SpecErr  is the program with handleError also called with any code.     *)
(* SpecTimer is the timer part of loop() around the wrap of millis().      *)
(* SpecLive is the program under weak fairness of loop() and the callbacks.*)
(***************************************************************************)
EXTENDS Integers, Sequences, FiniteSets, TLC

(***************************************************************************)
(* Program constants                                                       *)
(***************************************************************************)
\* config.h: #define XBOX_CONTROLLER_NAME_PREFIX "Xbox"
XBOX_CONTROLLER_NAME_PREFIX == <<"X", "b", "o", "x">>

\* config.h: #define LEGO_HUB_NAME "Technic Move"
LEGO_HUB_NAME == <<"T", "e", "c", "h", "n", "i", "c", " ", "M", "o", "v", "e">>

\* The two roles: the Xbox controller and the Lego hub.
Roles == {"xbox", "lego"}

\* enum class BLEState
BLEState == {"IDLE", "SCANNING", "CONNECTING", "CONNECTED", "DISCONNECTED", "ERROR"}

\* enum class AppState
AppState == {"INIT", "SCANNING", "CONNECTING", "CONNECTED", "ACTIVE", "ERROR"}

(***************************************************************************)
(* Bounds and inputs of the model                                          *)
(***************************************************************************)
\* The history of application states is recorded up to this length.
MaxTrace == 6

\* The peripherals in radio range: each advertises a name and an address.
\* Names are sequences of characters so that the matching rules are computed.
Devices ==
    { [name |-> <<"X", "b", "o", "x", " ", "P", "a", "d">>, address |-> 1],
      [name |-> <<"T", "e", "c", "h", "n", "i", "c", " ", "M", "o", "v", "e">>, address |-> 2],
      [name |-> <<"x", "b", "o", "x">>, address |-> 3],
      [name |-> <<"X", "b", "o", "x", " ", "T", "e", "c", "h", "n", "i", "c", " ", "M", "o", "v", "e">>,
       address |-> 4] }

\* Signal strengths an advertisement may carry.
RssiValues == {-50, -80}

\* The advertisements the transport may report.
Advertisements ==
    { [name |-> d.name, address |-> d.address, rssi |-> s] : d \in Devices, s \in RssiValues }

(***************************************************************************)
(* State                                                                   *)
(***************************************************************************)
VARIABLES
    \* main.cpp
    appState,           \* currentState
    bleManager,         \* bleManager != nullptr
    connectingStarted,  \* static bool connectingStarted (loop, case CONNECTING)
    connected,          \* the locals xboxConnected / legoConnected: connect's return value
    pc,                 \* position of the polling context
    \* BLEManager
    client,             \* xboxClient / legoClient != nullptr
    info,               \* xboxInfo / legoInfo
    state,              \* xboxState / legoState
    scanning,           \* scanning
    \* transport (NimBLE)
    scanActive,         \* a scan is running in the transport
    link,               \* per client: "down", "up", or "term" (being torn down,
                        \* NimBLEClient::isConnected() still true)
    notify,             \* per client: an onDisconnect callback is due
    ack,                \* result of the transport connect that has just completed
    \* history (observation only; never read by the program)
    last,               \* the operation or event of the latest step; had is the
                        \* roles a scan request found with a record, or a
                        \* stopScan found scanning without one
    notified,           \* per role: a disconnect notification was delivered and no
                        \* connect has succeeded since
    notifiedAfterAck,   \* per role: a disconnect notification was delivered and the
                        \* transport has acknowledged no connect since
    wasConnected,       \* per role: state was CONNECTED since appState entered CONNECTING
    trace,              \* the distinct values appState has taken, in order
    fault,              \* an init failure, incomplete scan, failed connect or
                        \* disconnect has occurred
    \* loop(): the periodic timers at the top of every iteration
    \* (an unsigned 32-bit value is held as <<high half, low half>>)
    currentMillis,      \* millis() as read by the latest iteration
    lastDisplayUpdate,  \* static unsigned long lastDisplayUpdate
    lastSerialUpdate,   \* static unsigned long lastSerialUpdate
    dispatched          \* history: the periodic updates the latest iteration called

mgrVars == <<client, info, state, scanning>>
tVars == <<scanActive, link, notify, ack>>
appVars == <<appState, bleManager, connectingStarted, connected, pc>>
histVars == <<last, notified, notifiedAfterAck, wasConnected, trace, fault>>
timerVars == <<currentMillis, lastDisplayUpdate, lastSerialUpdate, dispatched>>
vars == <<appVars, mgrVars, tVars, histVars, timerVars>>

(***************************************************************************)
(* Pure helpers                                                            *)
(***************************************************************************)
\* Arduino String::startsWith: case-sensitive prefix comparison.
startsWith(s, p) ==
    /\ Len(p) <= Len(s)
    /\ SubSeq(s, 1, Len(p)) = p

\* Arduino String::indexOf: index of the first occurrence of p in s, or -1.
indexOf(s, p) ==
    LET hits == { i \in 0..(Len(s) - Len(p)) : SubSeq(s, i + 1, i + Len(p)) = p }
    IN  IF hits = {} THEN -1 ELSE CHOOSE i \in hits : \A j \in hits : i <= j

\* BLEManager::resetDeviceInfo: the empty Device Record.
resetDeviceInfo == [name |-> <<>>, address |-> 0, rssi |-> 0, found |-> FALSE]

\* The DeviceInfo onResult builds from an advertisement.
DeviceInfoOf(adv) ==
    [name |-> adv.name, address |-> adv.address, rssi |-> adv.rssi, found |-> TRUE]

foundXbox == info["xbox"].found
foundLego == info["lego"].found
foundBothDevices == info["xbox"].found /\ info["lego"].found

\* NimBLEClient::isConnected() as the transport reports it.
clientIsConnected(r) == link[r] \in {"up", "term"}

\* BLEManager::isXboxConnected / isLegoConnected
isConnected(r) == client[r] /\ clientIsConnected(r) /\ state[r] = "CONNECTED"

areBothConnected == isConnected("xbox") /\ isConnected("lego")

(***************************************************************************)
(* History bookkeeping                                                     *)
(***************************************************************************)
NoDev == [name |-> <<>>, address |-> 0, rssi |-> 0]

Ev(op, role) == [op |-> op, role |-> role, adv |-> NoDev, had |-> {}]

\* The trace after appState is written with s.
TraceAfter(s) ==
    IF s # trace[Len(trace)] /\ Len(trace) < MaxTrace THEN Append(trace, s) ELSE trace

\* currentState = s
SetAppState(s) ==
    /\ appState' = s
    /\ trace' = TraceAfter(s)

(***************************************************************************)
(* Initial state: before setup() runs.  The BLEManager fields hold the     *)
(* values its constructor gives them (ble_manager.cpp 14-24).              *)
(***************************************************************************)
\* loop()'s statics start at 0 (main.cpp 93, 100); no iteration has read
\* millis() yet.
TimersAtBoot ==
    /\ currentMillis = <<0, 0>>
    /\ lastDisplayUpdate = <<0, 0>>
    /\ lastSerialUpdate = <<0, 0>>
    /\ dispatched = {}

\* Everything but loop()'s timers.
InitApp ==
    /\ appState = "INIT"
    /\ bleManager = FALSE
    /\ connectingStarted = FALSE
    /\ connected = [r \in Roles |-> FALSE]
    /\ pc = "setup_init"
    /\ client = [r \in Roles |-> FALSE]
    /\ info = [r \in Roles |-> resetDeviceInfo]
    /\ state = [r \in Roles |-> "IDLE"]
    /\ scanning = FALSE
    /\ scanActive = FALSE
    /\ link = [r \in Roles |-> "down"]
    /\ notify = [r \in Roles |-> FALSE]
    /\ ack = FALSE
    /\ last = Ev("start", "-")
    /\ notified = [r \in Roles |-> FALSE]
    /\ notifiedAfterAck = [r \in Roles |-> FALSE]
    /\ wasConnected = [r \in Roles |-> FALSE]
    /\ trace = <<"INIT">>
    /\ fault = FALSE

Init ==
    /\ InitApp
    /\ TimersAtBoot

(***************************************************************************)
(* BLEManager operations (ble_manager.cpp).  Each constrains the manager   *)
(* and transport variables only; the caller says what happens to the rest. *)
(***************************************************************************)
\* BLEManager::init: created[r] is whether NimBLEDevice::createClient()
\* returned a client for role r.
init(created) ==
    /\ client' = created
    /\ state' = IF created["xbox"] /\ created["lego"]
                THEN state
                ELSE [r \in Roles |-> "ERROR"]
    /\ UNCHANGED <<info, scanning, tVars>>

\* Variant of startScan that keeps the records of the previous cycle.
startScan_NoReset ==
    /\ scanning' = TRUE
    /\ state' = [r \in Roles |-> "SCANNING"]
    /\ scanActive' = TRUE
    /\ UNCHANGED <<client, info, link, notify, ack>>

\* Variant of startScan that resets the controller's record only.
startScan_ResetXboxOnly ==
    /\ info' = [info EXCEPT !["xbox"] = resetDeviceInfo]
    /\ scanning' = TRUE
    /\ state' = [r \in Roles |-> "SCANNING"]
    /\ scanActive' = TRUE
    /\ UNCHANGED <<client, link, notify, ack>>

\* BLEManager::startScan: reset both records, mark scanning, start the
\* transport's asynchronous scan.
startScan ==
    /\ info' = [r \in Roles |-> resetDeviceInfo]
    /\ scanning' = TRUE
    /\ state' = [r \in Roles |-> "SCANNING"]
    /\ scanActive' = TRUE
    /\ UNCHANGED <<client, link, notify, ack>>

\* Variant of stopScan that leaves the states as they are.
stopScan_NoStateUpdate ==
    IF scanning
    THEN /\ scanActive' = FALSE
         /\ scanning' = FALSE
         /\ UNCHANGED <<client, info, state, link, notify, ack>>
    ELSE UNCHANGED <<mgrVars, tVars>>

\* BLEManager::stopScan
stopScan ==
    IF scanning
    THEN /\ scanActive' = FALSE
         /\ scanning' = FALSE
         /\ state' = [r \in Roles |->
                        IF ~info[r].found /\ state[r] = "SCANNING" THEN "IDLE" ELSE state[r]]
         /\ UNCHANGED <<client, info, link, notify, ack>>
    ELSE UNCHANGED <<mgrVars, tVars>>

\* Variant of connectToBegin that writes CONNECTING before the found check.
connectToBegin_NoFoundCheck(r) ==
    /\ state' = [state EXCEPT ![r] = "CONNECTING"]
    /\ UNCHANGED <<client, info, scanning, tVars>>

\* BLEManager::connectToXbox / connectToLego, up to the blocking transport
\* connect: the found check and the write of CONNECTING.
connectToBegin(r) ==
    IF ~info[r].found
    THEN UNCHANGED <<mgrVars, tVars>>
    ELSE /\ state' = [state EXCEPT ![r] = "CONNECTING"]
         /\ UNCHANGED <<client, info, scanning, tVars>>

\* How the entry of connectToXbox / connectToLego leaves: it returns false
\* (not found), dereferences a null client, or blocks in the transport.
connectToEntry(r) ==
    IF ~info[r].found THEN "notfound"
    ELSE IF ~client[r] THEN "nullclient"
    ELSE "blocked"

\* Variant of connectToEnd that returns the result without recording it.
connectToEnd_NoWrite(r) ==
    /\ ack' = FALSE
    /\ UNCHANGED <<client, info, state, scanning, scanActive, link, notify>>

\* Variant of connectToEnd whose failure marks both roles, as init does.
connectToEnd_ErrorBoth(r) ==
    /\ state' = IF ack THEN [state EXCEPT ![r] = "CONNECTED"]
                ELSE [q \in Roles |-> "ERROR"]
    /\ ack' = FALSE
    /\ UNCHANGED <<client, info, scanning, scanActive, link, notify>>

\* BLEManager::connectToXbox / connectToLego after the transport connect
\* returned ack: the write of CONNECTED or ERROR.
connectToEnd(r) ==
    /\ state' = [state EXCEPT ![r] = IF ack THEN "CONNECTED" ELSE "ERROR"]
    /\ ack' = FALSE
    /\ UNCHANGED <<client, info, scanning, scanActive, link, notify>>

\* The link of role r after NimBLEClient::disconnect() was asked for.
linkAfterDisconnect(r) ==
    IF client[r] /\ clientIsConnected(r) THEN "term" ELSE link[r]

\* Variant of disconnectEntry without the null check on the client.
disconnectEntry_NoNullCheck(r) ==
    IF ~client[r] THEN "nullclient"
    ELSE IF clientIsConnected(r) THEN "disconnect"
    ELSE "skip"

\* How the guard of disconnectXbox / disconnectLego leaves: the body is
\* skipped (no client, or not connected) or client->disconnect() is called.
\* The guard tests the client pointer before it dereferences it.
disconnectEntry(r) ==
    IF ~client[r] THEN "skip"
    ELSE IF clientIsConnected(r) THEN "disconnect"
    ELSE "skip"

\* Variant of disconnectRoles that also forgets the disconnected device.
disconnectRoles_ResetRecord(rs) ==
    /\ link' = [r \in Roles |-> IF r \in rs THEN linkAfterDisconnect(r) ELSE link[r]]
    /\ notify' = [r \in Roles |->
                    IF r \in rs /\ client[r] /\ link[r] = "up" THEN TRUE ELSE notify[r]]
    /\ state' = [r \in Roles |->
                    IF r \in rs /\ client[r] /\ clientIsConnected(r)
                    THEN "DISCONNECTED" ELSE state[r]]
    /\ info' = [r \in Roles |->
                    IF r \in rs /\ client[r] /\ clientIsConnected(r)
                    THEN resetDeviceInfo ELSE info[r]]
    /\ UNCHANGED <<client, scanning, scanActive, ack>>

\* Variant of disconnectRoles that writes DISCONNECTED without looking at
\* the client.
disconnectRoles_NoLiveCheck(rs) ==
    /\ link' = [r \in Roles |-> IF r \in rs THEN linkAfterDisconnect(r) ELSE link[r]]
    /\ notify' = [r \in Roles |->
                    IF r \in rs /\ client[r] /\ link[r] = "up" THEN TRUE ELSE notify[r]]
    /\ state' = [r \in Roles |-> IF r \in rs THEN "DISCONNECTED" ELSE state[r]]
    /\ UNCHANGED <<client, info, scanning, scanActive, ack>>

\* BLEManager::disconnectXbox / disconnectLego, for the roles in rs.
disconnectRoles(rs) ==
    /\ link' = [r \in Roles |-> IF r \in rs THEN linkAfterDisconnect(r) ELSE link[r]]
    /\ notify' = [r \in Roles |->
                    IF r \in rs /\ client[r] /\ link[r] = "up" THEN TRUE ELSE notify[r]]
    /\ state' = [r \in Roles |->
                    IF r \in rs /\ client[r] /\ clientIsConnected(r)
                    THEN "DISCONNECTED" ELSE state[r]]
    /\ UNCHANGED <<client, info, scanning, scanActive, ack>>

\* BLEManager::disconnectAll
disconnectAll == disconnectRoles(Roles)

\* BLEManager::resetForReconnection is called by handleError and is not
\* part of the sources; the recovery it performs is a disconnect-all.
resetForReconnection == disconnectAll

\* Variant of handleDisconnect that only logs.
handleDisconnect_NoWrite(r) ==
    UNCHANGED <<client, info, state, scanning>>

\* Variant of handleDisconnect that also forgets the device.
handleDisconnect_ResetRecord(r) ==
    /\ state' = [state EXCEPT ![r] = "DISCONNECTED"]
    /\ info' = [info EXCEPT ![r] = resetDeviceInfo]
    /\ UNCHANGED <<client, scanning>>

\* Variant of handleDisconnect that records the loss as an error.
handleDisconnect_Error(r) ==
    /\ state' = [state EXCEPT ![r] = "ERROR"]
    /\ UNCHANGED <<client, info, scanning>>

\* BLEManager::handleXboxDisconnect / handleLegoDisconnect
handleDisconnect(r) ==
    /\ state' = [state EXCEPT ![r] = "DISCONNECTED"]
    /\ UNCHANGED <<client, info, scanning>>

\* Variant of infoAfterResult without the not-yet-found checks.
infoAfterResult_NoFoundCheck(r, adv) ==
    IF r = "xbox"
    THEN IF startsWith(adv.name, XBOX_CONTROLLER_NAME_PREFIX)
         THEN DeviceInfoOf(adv) ELSE info[r]
    ELSE IF indexOf(adv.name, LEGO_HUB_NAME) >= 0
         THEN DeviceInfoOf(adv) ELSE info[r]

\* The record of role r after onResult saw adv: written only when the role
\* is not found yet and the name matches the role's rule.
infoAfterResult(r, adv) ==
    IF r = "xbox"
    THEN IF ~foundXbox /\ startsWith(adv.name, XBOX_CONTROLLER_NAME_PREFIX)
         THEN DeviceInfoOf(adv) ELSE info[r]
    ELSE IF ~foundLego /\ indexOf(adv.name, LEGO_HUB_NAME) >= 0
         THEN DeviceInfoOf(adv) ELSE info[r]

\* Variant of onResult that never stops the scan.
onResult_NoStop(adv) ==
    /\ info' = [r \in Roles |->
                  IF r = "xbox"
                  THEN IF ~foundXbox /\ startsWith(adv.name, XBOX_CONTROLLER_NAME_PREFIX)
                       THEN DeviceInfoOf(adv) ELSE info[r]
                  ELSE IF ~foundLego /\ indexOf(adv.name, LEGO_HUB_NAME) >= 0
                       THEN DeviceInfoOf(adv) ELSE info[r]]
    /\ UNCHANGED <<scanActive, scanning, client, state, link, notify, ack>>

\* AdvertisedDeviceCallbacks::onResult.  When both roles are found it stops
\* the scan; NimBLEScan::stop() ends the running scan and calls the
\* completion callback scanCompleteCB, which clears the scanning flag.
onResult(adv) ==
    /\ info' = [r \in Roles |-> infoAfterResult(r, adv)]
    /\ IF info'["xbox"].found /\ info'["lego"].found
       THEN scanActive' = FALSE /\ scanning' = FALSE
       ELSE UNCHANGED <<scanActive, scanning>>
    /\ UNCHANGED <<client, state, link, notify, ack>>

\* BLEManager::scanCompleteCB, called when the scan duration has elapsed.
scanCompleteCB ==
    /\ scanning' = FALSE
    /\ scanActive' = FALSE
    /\ UNCHANGED <<client, info, state, link, notify, ack>>

(***************************************************************************)
(* main.cpp: handleError, startScanning, setup                             *)
(***************************************************************************)
ErrorCode ==
    {"ERR_NONE", "ERR_BLE_INIT_FAILED", "ERR_XBOX_NOT_FOUND", "ERR_LEGO_NOT_FOUND",
     "ERR_XBOX_CONNECT_FAILED", "ERR_LEGO_CONNECT_FAILED", "ERR_XBOX_DISCONNECTED",
     "ERR_LEGO_DISCONNECTED", "ERR_SETTINGS_LOAD_FAILED", "ERR_SETTINGS_SAVE_FAILED"}

\* Variant of DisconnectCodes in which only the controller's loss recovers.
DisconnectCodes_XboxOnly == {"ERR_XBOX_DISCONNECTED"}

\* The error codes handleError answers with a recovery.
DisconnectCodes == {"ERR_XBOX_DISCONNECTED", "ERR_LEGO_DISCONNECTED"}

\* handleError(error), up to its delay(2000) for the two disconnect codes and
\* whole for every other code; cont is where the caller goes on afterwards.
\* For the other codes it leaves the manager and the transport to the caller.
handleError(error, cont) ==
    IF error \in DisconnectCodes
    THEN /\ IF bleManager THEN resetForReconnection ELSE UNCHANGED <<mgrVars, tVars>>
         /\ pc' = "recover_delay"
         /\ UNCHANGED <<appState, trace>>
    ELSE /\ SetAppState("ERROR")
         /\ pc' = cont

\* Variant of startScanning without the check of the manager pointer.
startScanning_NoManagerCheck(cont) ==
    /\ startScan
    /\ pc' = cont
    /\ UNCHANGED <<appState, trace>>

\* startScanning()
startScanning(cont) ==
    IF ~bleManager
    THEN /\ handleError("ERR_BLE_INIT_FAILED", cont)
         /\ UNCHANGED <<mgrVars, tVars>>
    ELSE /\ startScan
         /\ pc' = cont
         /\ UNCHANGED <<appState, trace>>

\* setup(): initBLE().  made is whether new BLEManager() gave an object,
\* created[r] whether createClient() gave a client for role r.
SetupInitBLE ==
    /\ pc = "setup_init"
    /\ \E made \in BOOLEAN, created \in [Roles -> BOOLEAN] :
         /\ bleManager' = made
         /\ IF ~made
            THEN /\ created = [r \in Roles |-> FALSE]
                 /\ handleError("ERR_BLE_INIT_FAILED", "setup_state")
                 /\ UNCHANGED <<mgrVars, tVars>>
            ELSE /\ init(created)
                 /\ pc' = "setup_state"
                 /\ UNCHANGED <<appState, trace>>
         /\ fault' = (~made \/ ~created["xbox"] \/ ~created["lego"])
    /\ last' = Ev("SetupInitBLE", "-")
    /\ UNCHANGED <<connectingStarted, connected, notified, wasConnected>>
    /\ UNCHANGED notifiedAfterAck
    /\ UNCHANGED timerVars

\* setup(): currentState = AppState::SCANNING
SetupSetState ==
    /\ pc = "setup_state"
    /\ SetAppState("SCANNING")
    /\ pc' = "setup_scan"
    /\ last' = Ev("SetupSetState", "-")
    /\ UNCHANGED <<bleManager, connectingStarted, connected, mgrVars, tVars,
                   notified, wasConnected, fault>>
    /\ UNCHANGED notifiedAfterAck
    /\ UNCHANGED timerVars

\* setup(): startScanning()
SetupStartScanning ==
    /\ pc = "setup_scan"
    /\ startScanning("loop")
    /\ last' = Ev("SetupStartScanning", "-")
    /\ UNCHANGED <<bleManager, connectingStarted, connected, notified, wasConnected, fault>>
    /\ UNCHANGED notifiedAfterAck
    /\ UNCHANGED timerVars

(***************************************************************************)
(* main.cpp: loop(), one action per case of the state machine and per      *)
(* continuation after a blocking call                                      *)
(***************************************************************************)
\* Variant of LoopScanningFound that goes on as soon as the scan is over.
LoopScanningFound_NoFoundCheck ==
    /\ pc = "loop" /\ appState = "SCANNING"
    /\ bleManager /\ ~scanning
    /\ SetAppState("CONNECTING")
    /\ wasConnected' = [r \in Roles |-> FALSE]
    /\ last' = Ev("LoopScanningFound", "-")
    /\ UNCHANGED <<bleManager, connectingStarted, connected, pc, mgrVars, tVars,
                   notified, fault>>
    /\ UNCHANGED notifiedAfterAck
    /\ UNCHANGED timerVars

\* case SCANNING, scan over and both found: go to CONNECTING.
LoopScanningFound ==
    /\ pc = "loop" /\ appState = "SCANNING"
    /\ bleManager /\ ~scanning
    /\ foundBothDevices
    /\ SetAppState("CONNECTING")
    /\ wasConnected' = [r \in Roles |-> FALSE]
    /\ last' = Ev("LoopScanningFound", "-")
    /\ UNCHANGED <<bleManager, connectingStarted, connected, pc, mgrVars, tVars,
                   notified, fault>>
    /\ UNCHANGED notifiedAfterAck
    /\ UNCHANGED timerVars

\* Variant of LoopScanningMissing that treats a missing device as an error.
LoopScanningMissing_Error ==
    /\ pc = "loop" /\ appState = "SCANNING"
    /\ bleManager /\ ~scanning
    /\ ~foundBothDevices
    /\ SetAppState("ERROR")
    /\ last' = Ev("LoopScanningMissing", "-")
    /\ UNCHANGED <<bleManager, connectingStarted, connected, pc, mgrVars,
                   tVars, notified, wasConnected, fault>>
    /\ UNCHANGED notifiedAfterAck
    /\ UNCHANGED timerVars

\* Variant of LoopScanningMissing that does not wait for the scan to end.
LoopScanningMissing_NoScanCheck ==
    /\ pc = "loop" /\ appState = "SCANNING"
    /\ bleManager
    /\ ~foundBothDevices
    /\ pc' = "scan_delay"
    /\ last' = Ev("LoopScanningMissing", "-")
    /\ UNCHANGED <<appState, trace, bleManager, connectingStarted, connected, mgrVars,
                   tVars, notified, wasConnected, fault>>
    /\ UNCHANGED notifiedAfterAck
    /\ UNCHANGED timerVars

\* case SCANNING, scan over and a device missing: delay(3000) begins.
LoopScanningMissing ==
    /\ pc = "loop" /\ appState = "SCANNING"
    /\ bleManager /\ ~scanning
    /\ ~foundBothDevices
    /\ pc' = "scan_delay"
    /\ last' = Ev("LoopScanningMissing", "-")
    /\ UNCHANGED <<appState, trace, bleManager, connectingStarted, connected, mgrVars,
                   tVars, notified, wasConnected, fault>>
    /\ UNCHANGED notifiedAfterAck
    /\ UNCHANGED timerVars

\* Variant of ScanRetry that gives up instead of scanning again.
ScanRetry_GiveUp ==
    /\ pc = "scan_delay"
    /\ handleError("ERR_XBOX_NOT_FOUND", "loop")
    /\ last' = [Ev("ScanRetry", "-") EXCEPT !.had = {r \in Roles : info[r].found}]
    /\ UNCHANGED <<mgrVars, tVars>>
    /\ UNCHANGED <<bleManager, connectingStarted, connected, notified, wasConnected, fault>>
    /\ UNCHANGED notifiedAfterAck
    /\ UNCHANGED timerVars

\* case SCANNING, after delay(3000): startScanning().
ScanRetry ==
    /\ pc = "scan_delay"
    /\ startScanning("loop")
    /\ last' = [Ev("ScanRetry", "-") EXCEPT !.had = {r \in Roles : info[r].found}]
    /\ UNCHANGED <<bleManager, connectingStarted, connected, notified, wasConnected, fault>>
    /\ UNCHANGED notifiedAfterAck
    /\ UNCHANGED timerVars

\* What the polling context does after the entry of connectTo(r):
\* the failure path of the caller, a fault, or the blocking connect.
AfterConnectEntry(r, code) ==
    IF connectToEntry(r) = "notfound"
    THEN /\ handleError(code, "loop")
         /\ connectingStarted' = FALSE
         /\ connected' = [q \in Roles |-> FALSE]
         /\ fault' = TRUE
    ELSE /\ pc' = IF connectToEntry(r) = "nullclient" THEN "crashed"
                  ELSE IF r = "xbox" THEN "xbox_connect" ELSE "lego_connect"
         /\ connectingStarted' = TRUE
         /\ UNCHANGED <<appState, trace, connected, fault>>

\* case CONNECTING: set the latch and call connectToXbox(), which returns
\* false at once or blocks in the transport connect.
LoopConnecting ==
    /\ pc = "loop" /\ appState = "CONNECTING"
    /\ ~connectingStarted
    /\ connectToBegin("xbox")
    /\ AfterConnectEntry("xbox", "ERR_XBOX_CONNECT_FAILED")
    /\ last' = Ev("LoopConnecting", "xbox")
    /\ UNCHANGED <<bleManager, notified, wasConnected>>
    /\ UNCHANGED notifiedAfterAck
    /\ UNCHANGED timerVars

\* Variant of XboxConnectReturn without the break after the failure.
XboxConnectReturn_NoBreak ==
    /\ pc = "xbox_ret"
    /\ connectToEnd("xbox")
    /\ connected' = [connected EXCEPT !["xbox"] = ack]
    /\ IF ack
       THEN UNCHANGED <<appState, trace>>
       ELSE SetAppState("ERROR")
    /\ pc' = "stabilize"
    /\ UNCHANGED connectingStarted
    /\ last' = Ev("XboxConnectReturn", "xbox")
    /\ notified' = [notified EXCEPT !["xbox"] = IF ack THEN FALSE ELSE @]
    /\ wasConnected' = [wasConnected EXCEPT !["xbox"] = @ \/ ack]
    /\ fault' = (fault \/ ~ack)
    /\ UNCHANGED bleManager
    /\ UNCHANGED notifiedAfterAck
    /\ UNCHANGED timerVars

\* case CONNECTING: connectToXbox() returns; on success delay(1000) begins,
\* on failure handleError, the latch is cleared and the case is left.
XboxConnectReturn ==
    /\ pc = "xbox_ret"
    /\ connectToEnd("xbox")
    /\ connected' = [connected EXCEPT !["xbox"] = ack]
    /\ IF ack
       THEN /\ pc' = "stabilize"
            /\ UNCHANGED <<appState, trace, connectingStarted>>
       ELSE /\ handleError("ERR_XBOX_CONNECT_FAILED", "loop")
            /\ connectingStarted' = FALSE
    /\ last' = Ev("XboxConnectReturn", "xbox")
    /\ notified' = [notified EXCEPT !["xbox"] = IF ack THEN FALSE ELSE @]
    /\ wasConnected' = [wasConnected EXCEPT !["xbox"] = @ \/ ack]
    /\ fault' = (fault \/ ~ack)
    /\ UNCHANGED bleManager
    /\ UNCHANGED notifiedAfterAck
    /\ UNCHANGED timerVars

\* case CONNECTING, after delay(1000): call connectToLego().
ConnectLegoStart ==
    /\ pc = "stabilize"
    /\ connectToBegin("lego")
    /\ AfterConnectEntry("lego", "ERR_LEGO_CONNECT_FAILED")
    /\ last' = Ev("ConnectLegoStart", "lego")
    /\ UNCHANGED <<bleManager, notified, wasConnected>>
    /\ UNCHANGED notifiedAfterAck
    /\ UNCHANGED timerVars

\* Variant of LegoConnectReturn that goes to ACTIVE at once.
LegoConnectReturn_SkipConnected ==
    /\ pc = "lego_ret"
    /\ connectToEnd("lego")
    /\ IF ack
       THEN SetAppState("ACTIVE") /\ pc' = "loop"
       ELSE handleError("ERR_LEGO_CONNECT_FAILED", "loop")
    /\ connectingStarted' = FALSE
    /\ connected' = [r \in Roles |-> FALSE]
    /\ last' = Ev("LegoConnectReturn", "lego")
    /\ notified' = [notified EXCEPT !["lego"] = IF ack THEN FALSE ELSE @]
    /\ wasConnected' = [wasConnected EXCEPT !["lego"] = @ \/ ack]
    /\ fault' = (fault \/ ~ack)
    /\ UNCHANGED bleManager
    /\ UNCHANGED notifiedAfterAck
    /\ UNCHANGED timerVars

\* Variant of LegoConnectReturn that does not look at the result.
LegoConnectReturn_IgnoreResult ==
    /\ pc = "lego_ret"
    /\ connectToEnd("lego")
    /\ SetAppState("CONNECTED") /\ pc' = "loop"
    /\ connectingStarted' = FALSE
    /\ connected' = [r \in Roles |-> FALSE]
    /\ last' = Ev("LegoConnectReturn", "lego")
    /\ notified' = [notified EXCEPT !["lego"] = IF ack THEN FALSE ELSE @]
    /\ wasConnected' = [wasConnected EXCEPT !["lego"] = @ \/ ack]
    /\ fault' = (fault \/ ~ack)
    /\ UNCHANGED bleManager
    /\ UNCHANGED notifiedAfterAck
    /\ UNCHANGED timerVars

\* case CONNECTING: connectToLego() returns; CONNECTED on success,
\* handleError on failure; the latch is cleared.
LegoConnectReturn ==
    /\ pc = "lego_ret"
    /\ connectToEnd("lego")
    /\ IF ack
       THEN SetAppState("CONNECTED") /\ pc' = "loop"
       ELSE handleError("ERR_LEGO_CONNECT_FAILED", "loop")
    /\ connectingStarted' = FALSE
    /\ connected' = [r \in Roles |-> FALSE]
    /\ last' = Ev("LegoConnectReturn", "lego")
    /\ notified' = [notified EXCEPT !["lego"] = IF ack THEN FALSE ELSE @]
    /\ wasConnected' = [wasConnected EXCEPT !["lego"] = @ \/ ack]
    /\ fault' = (fault \/ ~ack)
    /\ UNCHANGED bleManager
    /\ UNCHANGED notifiedAfterAck
    /\ UNCHANGED timerVars

\* case CONNECTED
LoopConnected ==
    /\ pc = "loop" /\ appState = "CONNECTED"
    /\ SetAppState("ACTIVE")
    /\ last' = Ev("LoopConnected", "-")
    /\ UNCHANGED <<bleManager, connectingStarted, connected, pc, mgrVars, tVars,
                   notified, wasConnected, fault>>
    /\ UNCHANGED notifiedAfterAck
    /\ UNCHANGED timerVars

\* The role case ACTIVE finds disconnected first, or "-".
DisconnectedRole ==
    IF bleManager /\ ~isConnected("xbox") THEN "xbox"
    ELSE IF bleManager /\ ~isConnected("lego") THEN "lego"
    ELSE "-"

\* case ACTIVE, a role is not connected: handleError with its disconnect
\* code, up to the delay(2000).
LoopActiveDisconnected ==
    /\ pc = "loop" /\ appState = "ACTIVE"
    /\ DisconnectedRole # "-"
    /\ handleError(IF DisconnectedRole = "xbox" THEN "ERR_XBOX_DISCONNECTED"
                   ELSE "ERR_LEGO_DISCONNECTED", "loop")
    /\ last' = Ev("LoopActiveDisconnected", DisconnectedRole)
    /\ UNCHANGED <<bleManager, connectingStarted, connected, notified, wasConnected, fault>>
    /\ UNCHANGED notifiedAfterAck
    /\ UNCHANGED timerVars

\* Variant of RecoverRescan that gives up after the delay.
RecoverRescan_GiveUp ==
    /\ pc = "recover_delay"
    /\ SetAppState("ERROR")
    /\ pc' = "loop"
    /\ UNCHANGED <<mgrVars, tVars>>
    /\ last' = [Ev("RecoverRescan", "-") EXCEPT !.had = {r \in Roles : info[r].found}]
    /\ UNCHANGED <<bleManager, connectingStarted, connected, notified, wasConnected, fault>>
    /\ UNCHANGED notifiedAfterAck
    /\ UNCHANGED timerVars

\* handleError, disconnect codes, after delay(2000):
\* currentState = SCANNING; startScanning().
RecoverRescan ==
    /\ pc = "recover_delay"
    /\ IF bleManager
       THEN /\ SetAppState("SCANNING")
            /\ startScan
            /\ pc' = "loop"
       ELSE /\ SetAppState("ERROR")
            /\ pc' = "loop"
            /\ UNCHANGED <<mgrVars, tVars>>
    /\ last' = [Ev("RecoverRescan", "-") EXCEPT !.had = {r \in Roles : info[r].found}]
    /\ UNCHANGED <<bleManager, connectingStarted, connected, notified, wasConnected, fault>>
    /\ UNCHANGED notifiedAfterAck
    /\ UNCHANGED timerVars

\* Variant of LoopActiveTick without the disconnection checks.
LoopActiveTick_NoCheck ==
    /\ pc = "loop" /\ appState = "ACTIVE"
    /\ last' = Ev("LoopActiveTick", "-")
    /\ UNCHANGED <<appVars, mgrVars, tVars, notified, wasConnected, trace, fault>>
    /\ UNCHANGED notifiedAfterAck
    /\ UNCHANGED timerVars

\* case ACTIVE, both roles connected: the control tick.
LoopActiveTick ==
    /\ pc = "loop" /\ appState = "ACTIVE"
    /\ DisconnectedRole = "-"
    /\ last' = Ev("LoopActiveTick", "-")
    /\ UNCHANGED <<appVars, mgrVars, tVars, notified, wasConnected, trace, fault>>
    /\ UNCHANGED notifiedAfterAck
    /\ UNCHANGED timerVars

\* case ERROR: only the LED blinks.
LoopError ==
    /\ pc = "loop" /\ appState = "ERROR"
    /\ last' = Ev("LoopError", "-")
    /\ UNCHANGED <<appVars, mgrVars, tVars, notified, wasConnected, trace, fault>>
    /\ UNCHANGED notifiedAfterAck
    /\ UNCHANGED timerVars

(***************************************************************************)
(* The transport and its callbacks (host task)                             *)
(***************************************************************************)
\* The transport reports an advertisement of a running scan.
OnResult ==
    /\ pc # "crashed"
    /\ scanActive
    /\ \E adv \in Advertisements :
         /\ onResult(adv)
         /\ last' = [Ev("OnResult", "-") EXCEPT !.adv = adv]
    /\ UNCHANGED <<appVars, notified, wasConnected, trace, fault>>
    /\ UNCHANGED notifiedAfterAck
    /\ UNCHANGED timerVars

\* The scan duration elapses: the transport ends the scan and calls
\* scanCompleteCB.
ScanComplete ==
    /\ pc # "crashed"
    /\ scanActive
    /\ scanCompleteCB
    /\ last' = Ev("ScanComplete", "-")
    /\ fault' = (fault \/ ~foundBothDevices)
    /\ UNCHANGED <<appVars, notified, wasConnected, trace>>
    /\ UNCHANGED notifiedAfterAck
    /\ UNCHANGED timerVars

\* The blocking NimBLEClient::connect of role r completes.  It can succeed
\* only for a client that is neither connected nor being torn down.
TConnectDone(r) ==
    /\ pc = (IF r = "xbox" THEN "xbox_connect" ELSE "lego_connect")
    /\ \E ok \in BOOLEAN :
         /\ ok => (link[r] = "down" /\ ~notify[r])
         /\ ack' = ok
         /\ link' = [link EXCEPT ![r] = IF ok THEN "up" ELSE @]
         /\ notifiedAfterAck' = [notifiedAfterAck EXCEPT ![r] = IF ok THEN FALSE ELSE @]
    /\ pc' = (IF r = "xbox" THEN "xbox_ret" ELSE "lego_ret")
    /\ last' = Ev("TConnectDone", r)
    /\ UNCHANGED <<appState, bleManager, connectingStarted, connected, mgrVars,
                   scanActive, notify, notified, wasConnected, trace, fault>>
    /\ UNCHANGED timerVars

\* The peer of role r drops an established connection: the transport starts
\* tearing it down and owes the client an onDisconnect.
PeerLost(r) ==
    /\ pc # "crashed"
    /\ link[r] = "up"
    /\ link' = [link EXCEPT ![r] = "term"]
    /\ notify' = [notify EXCEPT ![r] = TRUE]
    /\ last' = Ev("PeerLost", r)
    /\ fault' = TRUE
    /\ UNCHANGED <<appVars, mgrVars, scanActive, ack, notified, wasConnected, trace>>
    /\ UNCHANGED notifiedAfterAck
    /\ UNCHANGED timerVars

\* The transport finishes tearing down role r's connection:
\* NimBLEClient::isConnected() turns false.
LinkClear(r) ==
    /\ pc # "crashed"
    /\ link[r] = "term"
    /\ link' = [link EXCEPT ![r] = "down"]
    /\ last' = Ev("LinkClear", r)
    /\ UNCHANGED <<appVars, mgrVars, scanActive, notify, ack, notified, wasConnected,
                   trace, fault>>
    /\ UNCHANGED notifiedAfterAck
    /\ UNCHANGED timerVars

\* Variant of OnDisconnect in which the callback itself sends the
\* application back to scanning.
OnDisconnect_Recover(r) ==
    /\ pc # "crashed"
    /\ notify[r]
    /\ notify' = [notify EXCEPT ![r] = FALSE]
    /\ handleDisconnect(r)
    /\ SetAppState("SCANNING")
    /\ last' = Ev("OnDisconnect", r)
    /\ notified' = [notified EXCEPT ![r] = TRUE]
    /\ UNCHANGED <<bleManager, connectingStarted, connected, pc, scanActive, link, ack,
                   wasConnected, fault>>
    /\ notifiedAfterAck' = [notifiedAfterAck EXCEPT ![r] = TRUE]
    /\ UNCHANGED timerVars

\* ClientCallbacks::onDisconnect for role r.
OnDisconnect(r) ==
    /\ pc # "crashed"
    /\ notify[r]
    /\ notify' = [notify EXCEPT ![r] = FALSE]
    /\ handleDisconnect(r)
    /\ last' = Ev("OnDisconnect", r)
    /\ notified' = [notified EXCEPT ![r] = TRUE]
    /\ UNCHANGED <<appVars, scanActive, link, ack, wasConnected, trace, fault>>
    /\ notifiedAfterAck' = [notifiedAfterAck EXCEPT ![r] = TRUE]
    /\ UNCHANGED timerVars

(***************************************************************************)
(* The program.  loop()'s case INIT has no action: setup() always leaves   *)
(* INIT before loop() first runs, and the case does nothing.  An iteration *)
(* of case SCANNING while the scan still runs changes nothing either.      *)
(***************************************************************************)
Next ==
    \/ SetupInitBLE
    \/ SetupSetState
    \/ SetupStartScanning
    \/ LoopScanningFound
    \/ LoopScanningMissing
    \/ ScanRetry
    \/ LoopConnecting
    \/ XboxConnectReturn
    \/ ConnectLegoStart
    \/ LegoConnectReturn
    \/ LoopConnected
    \/ LoopActiveDisconnected
    \/ RecoverRescan
    \/ LoopActiveTick
    \/ LoopError
    \/ OnResult
    \/ ScanComplete
    \/ \E r \in Roles : TConnectDone(r)
    \/ \E r \in Roles : PeerLost(r)
    \/ \E r \in Roles : LinkClear(r)
    \/ \E r \in Roles : OnDisconnect(r)

Spec == Init /\ [][Next]_vars

(***************************************************************************)
(* The program with handleError also called, as its other users would,     *)
(* with any error code: the codes of the enumeration and a value outside   *)
(* it                                                                      *)
(***************************************************************************)
\* The values handleError's switch can be given; "UNKNOWN" is an integer that
\* is no enumerator of ErrorCode and takes the default branch.
AnyErrorCode == ErrorCode \cup {"UNKNOWN"}

\* handleError(error) called between two iterations of loop(), while the
\* application runs (in ERROR nothing runs that could report an error).
CallHandleError(error) ==
    /\ pc = "loop" /\ appState # "ERROR"
    /\ handleError(error, "loop")
    /\ IF error \in DisconnectCodes THEN TRUE ELSE UNCHANGED <<mgrVars, tVars>>
    /\ last' = Ev("handleError", error)
    /\ UNCHANGED <<bleManager, connectingStarted, connected, notified, wasConnected, fault>>
    /\ UNCHANGED notifiedAfterAck
    /\ UNCHANGED timerVars

NextErr ==
    \/ Next
    \/ \E error \in AnyErrorCode : CallHandleError(error)

SpecErr == Init /\ [][NextErr]_vars

(***************************************************************************)
(* The BLEManager driven through its public interface, in any order        *)
(***************************************************************************)
\* A constructed BLEManager on which init() has not been called yet.
InitMgr ==
    /\ appState = "INIT"
    /\ bleManager = TRUE
    /\ connectingStarted = FALSE
    /\ connected = [r \in Roles |-> FALSE]
    /\ pc = "api_new"
    /\ client = [r \in Roles |-> FALSE]
    /\ info = [r \in Roles |-> resetDeviceInfo]
    /\ state = [r \in Roles |-> "IDLE"]
    /\ scanning = FALSE
    /\ scanActive = FALSE
    /\ link = [r \in Roles |-> "down"]
    /\ notify = [r \in Roles |-> FALSE]
    /\ ack = FALSE
    /\ last = Ev("start", "-")
    /\ notified = [r \in Roles |-> FALSE]
    /\ notifiedAfterAck = [r \in Roles |-> FALSE]
    /\ wasConnected = [r \in Roles |-> FALSE]
    /\ trace = <<"INIT">>
    /\ fault = FALSE
    /\ TimersAtBoot

\* The caller is between two calls.
ApiIdle == pc \in {"api_new", "api"}

\* init()
ApiInit ==
    /\ pc = "api_new"
    /\ \E created \in [Roles -> BOOLEAN] : init(created)
    /\ pc' = "api"
    /\ last' = Ev("init", "-")
    /\ UNCHANGED <<appState, bleManager, connectingStarted, connected, notified,
                   wasConnected, trace, fault>>
    /\ UNCHANGED notifiedAfterAck
    /\ UNCHANGED timerVars

\* startScan(), once the transport is initialized
ApiStartScan ==
    /\ pc = "api"
    /\ startScan
    /\ last' = [Ev("startScan", "-") EXCEPT !.had = {r \in Roles : info[r].found}]
    /\ UNCHANGED <<appVars, notified, wasConnected, trace, fault>>
    /\ UNCHANGED notifiedAfterAck
    /\ UNCHANGED timerVars

\* stopScan()
ApiStopScan ==
    /\ ApiIdle
    /\ stopScan
    /\ last' = [Ev("stopScan", "-") EXCEPT
                  !.had = {r \in Roles : scanning /\ ~info[r].found /\ state[r] = "SCANNING"}]
    /\ UNCHANGED <<appVars, notified, wasConnected, trace, fault>>
    /\ UNCHANGED notifiedAfterAck
    /\ UNCHANGED timerVars

\* connectToXbox() / connectToLego() is called: it returns false at once
\* (connected[r] holds the value returned) or blocks in the transport connect.
ApiConnect(r) ==
    /\ ApiIdle
    /\ connectToBegin(r)
    /\ IF connectToEntry(r) = "notfound"
       THEN /\ connected' = [connected EXCEPT ![r] = FALSE]
            /\ pc' = pc
       ELSE /\ pc' = IF connectToEntry(r) = "nullclient" THEN "crashed"
                     ELSE IF r = "xbox" THEN "xbox_connect" ELSE "lego_connect"
            /\ UNCHANGED connected
    /\ last' = Ev("connect", r)
    /\ UNCHANGED <<appState, bleManager, connectingStarted, notified, wasConnected,
                   trace, fault>>
    /\ UNCHANGED notifiedAfterAck
    /\ UNCHANGED timerVars

\* connectToXbox() / connectToLego() returns from the transport connect.
ApiConnectReturn(r) ==
    /\ pc = (IF r = "xbox" THEN "xbox_ret" ELSE "lego_ret")
    /\ connectToEnd(r)
    /\ connected' = [connected EXCEPT ![r] = ack]
    /\ pc' = "api"
    /\ last' = Ev("connectReturn", r)
    /\ notified' = [notified EXCEPT ![r] = IF ack THEN FALSE ELSE @]
    /\ UNCHANGED <<appState, bleManager, connectingStarted, wasConnected, trace, fault>>
    /\ UNCHANGED notifiedAfterAck
    /\ UNCHANGED timerVars

\* disconnectXbox() / disconnectLego()
ApiDisconnect(r) ==
    /\ ApiIdle
    /\ disconnectRoles({r})
    /\ pc' = IF disconnectEntry(r) = "nullclient" THEN "crashed" ELSE pc
    /\ last' = Ev("disconnect", r)
    /\ UNCHANGED <<appState, bleManager, connectingStarted, connected, notified,
                   wasConnected, trace, fault>>
    /\ UNCHANGED notifiedAfterAck
    /\ UNCHANGED timerVars

\* disconnectAll()
ApiDisconnectAll ==
    /\ ApiIdle
    /\ disconnectAll
    /\ pc' = IF \E r \in Roles : disconnectEntry(r) = "nullclient" THEN "crashed" ELSE pc
    /\ last' = Ev("disconnectAll", "-")
    /\ UNCHANGED <<appState, bleManager, connectingStarted, connected, notified,
                   wasConnected, trace, fault>>
    /\ UNCHANGED notifiedAfterAck
    /\ UNCHANGED timerVars

NextMgr ==
    \/ ApiInit
    \/ ApiStartScan
    \/ ApiStopScan
    \/ \E r \in Roles : ApiConnect(r)
    \/ \E r \in Roles : ApiConnectReturn(r)
    \/ \E r \in Roles : ApiDisconnect(r)
    \/ ApiDisconnectAll
    \/ OnResult
    \/ ScanComplete
    \/ \E r \in Roles : TConnectDone(r)
    \/ \E r \in Roles : PeerLost(r)
    \/ \E r \in Roles : LinkClear(r)
    \/ \E r \in Roles : OnDisconnect(r)

SpecMgr == InitMgr /\ [][NextMgr]_vars

(***************************************************************************)
(* Properties                                                              *)
(***************************************************************************)
\* The labels of the steps of loop()'s cases SCANNING and ACTIVE.
ScanningCaseOps == {"LoopScanningFound", "LoopScanningMissing"}
ActiveCaseOps == {"LoopActiveDisconnected", "LoopActiveTick"}

\* s is a prefix of t.
IsPrefix(s, t) == Len(s) <= Len(t) /\ SubSeq(t, 1, Len(s)) = s

\* The application states of a run without faults, in order.
Nominal == <<"INIT", "SCANNING", "CONNECTING", "CONNECTED", "ACTIVE">>

\* C1: a connect(r) called while r's record has found = false returns false
\* and changes nothing: neither role's state, no record, not the scanning
\* flag, nothing in the transport, and the caller is not blocked in a
\* transport connect.
C1_ConnectNotFound ==
    [][\A r \in Roles :
         (last'.op = "connect" /\ last'.role = r /\ ~info[r].found)
            => /\ connected'[r] = FALSE
               /\ state' = state
               /\ info' = info
               /\ scanning' = scanning
               /\ UNCHANGED tVars
               /\ pc' = pc]_vars

C1_Witness ==
    /\ last.op = "connect" /\ last.role = "lego"
    /\ ~info["lego"].found
    /\ connected["lego"] = FALSE
    /\ state["xbox"] = "CONNECTED" /\ state["lego"] = "SCANNING"
    /\ scanning

\* C2: within one pass through case CONNECTING the hub connect is started
\* only after connectToXbox() of that pass returned true, and a pass whose
\* connectToXbox() returned false ends without a hub connect.
C2_HubAfterController ==
    /\ [](pc \in {"lego_connect", "lego_ret"} => connected["xbox"])
    /\ [](last.op = "ConnectLegoStart" => connected["xbox"])
    /\ [][(last'.op = "XboxConnectReturn" /\ ~connected'["xbox"])
            => (pc' = "loop" /\ ~connectingStarted')]_vars

C2_Witness ==
    /\ pc = "lego_connect"
    /\ connected["xbox"]
    /\ state["lego"] = "CONNECTING"

\* C3: from the delivery of a disconnect notification for a role until a
\* connect of that role succeeds, isConnected(role) is false, whatever the
\* transport's isConnected() reports.
C3_NotConnectedAfterNotification ==
    \A r \in Roles : notified[r] => ~isConnected(r)

C3_Witness ==
    /\ last.op = "OnDisconnect" /\ last.role = "xbox"
    /\ clientIsConnected("xbox")
    /\ ~isConnected("xbox")

\* C4: an advertisement callback leaves the record of a role that is already
\* found unchanged, and a record it does write becomes the record of that
\* advertisement: per scan cycle each record is written at most once.
C4_RecordWrittenOnce ==
    [][last'.op = "OnResult"
         => \A r \in Roles :
              IF info[r].found
              THEN info'[r] = info[r]
              ELSE info'[r] \in {info[r], DeviceInfoOf(last'.adv)}]_vars

C4_Witness ==
    /\ last.op = "OnResult"
    /\ scanning
    /\ info["xbox"].found
    /\ startsWith(last.adv.name, XBOX_CONTROLLER_NAME_PREFIX)
    /\ last.adv.address = info["xbox"].address
    /\ last.adv.rssi # info["xbox"].rssi

\* C5: as soon as both roles are found the scan is over: the scanning flag
\* is false and no scan runs in the transport, without the duration having
\* elapsed, and loop()'s case SCANNING can go on to CONNECTING.
C5_EarlyStop ==
    foundBothDevices
        => /\ ~scanning
           /\ ~scanActive
           /\ (appState = "SCANNING" /\ pc = "loop") => ENABLED LoopScanningFound

C5_Witness ==
    /\ last.op = "OnResult"
    /\ foundBothDevices
    /\ ~scanning
    /\ appState = "SCANNING"

\* C6: in a run without init failure, incomplete scan, failed connect or
\* disconnect, the distinct application states are, in order, INIT,
\* SCANNING, CONNECTING, CONNECTED, ACTIVE, and ERROR does not occur.
C6_NominalSequence ==
    ~fault => (IsPrefix(trace, Nominal) /\ appState = trace[Len(trace)])

C6_Witness ==
    /\ ~fault
    /\ appState = "ACTIVE"
    /\ trace = Nominal

\* C7: an iteration of case ACTIVE that finds a role not connected takes the
\* recovery path, and the recovery ends with appState SCANNING and a new
\* scan started with both records not found.
C7_RecoveryRescans ==
    [][/\ (/\ appState = "ACTIVE" /\ pc = "loop" /\ ~areBothConnected
           /\ last'.op \in ActiveCaseOps)
          => (last'.op = "LoopActiveDisconnected" /\ pc' = "recover_delay")
       /\ (pc = "recover_delay" /\ pc' # pc)
          => /\ appState' = "SCANNING"
             /\ scanning' /\ scanActive'
             /\ \A r \in Roles : ~info'[r].found]_vars

C7_Witness ==
    /\ last.op = "RecoverRescan"
    /\ last.had = Roles
    /\ appState = "SCANNING"
    /\ scanning
    /\ \A r \in Roles : ~info[r].found

\* C8: (the claim) right after a connect attempt of either role has failed
\* in case CONNECTING, appState is still CONNECTING.
C8_StaysConnecting ==
    /\ (last.op = "XboxConnectReturn" /\ state["xbox"] = "ERROR") => appState = "CONNECTING"
    /\ (last.op = "LegoConnectReturn" /\ state["lego"] = "ERROR") => appState = "CONNECTING"

\* C9: an iteration of case SCANNING that finds the scan over and a role
\* missing stays in SCANNING, and after its delay a new scan is started
\* with both records not found.
C9_RetryScan ==
    [][/\ (/\ appState = "SCANNING" /\ pc = "loop" /\ bleManager
           /\ ~scanning /\ ~foundBothDevices
           /\ last'.op \in ScanningCaseOps)
          => (appState' = "SCANNING" /\ pc' = "scan_delay")
       /\ (pc = "scan_delay" /\ pc' # pc)
          => /\ appState' = "SCANNING"
             /\ scanning' /\ scanActive'
             /\ \A r \in Roles : ~info'[r].found]_vars

C9_Witness ==
    /\ last.op = "ScanRetry"
    /\ last.had = {"lego"}
    /\ appState = "SCANNING"
    /\ scanning
    /\ \A r \in Roles : ~info[r].found

\* C10: whenever appState is ACTIVE, each role's state has been CONNECTED
\* since appState last entered CONNECTING.
C10_ActiveAfterBothConnected ==
    appState = "ACTIVE" => \A r \in Roles : wasConnected[r]

C10_Witness ==
    /\ appState = "ACTIVE"
    /\ \A r \in Roles : wasConnected[r]
    /\ state["xbox"] = "DISCONNECTED"

\* C11: an iteration of loop() reaches the control tick only when, in that
\* iteration, appState is ACTIVE and isXboxConnected() and isLegoConnected()
\* both returned true; an iteration of case ACTIVE that sees a role not
\* connected takes the disconnect path and dispatches no tick.
C11_TickOnlyWhenBothConnected ==
    [][/\ last'.op = "LoopActiveTick"
          => (appState = "ACTIVE" /\ bleManager /\ isConnected("xbox") /\ isConnected("lego"))
       /\ (/\ appState = "ACTIVE" /\ pc = "loop"
           /\ ~(isConnected("xbox") /\ isConnected("lego"))
           /\ last'.op \in ActiveCaseOps)
          => (last'.op = "LoopActiveDisconnected" /\ pc' = "recover_delay")]_vars

C11_Witness ==
    /\ last.op = "LoopActiveTick"
    /\ appState = "ACTIVE"
    /\ isConnected("xbox") /\ isConnected("lego")

\* C12: in every state, a role whose state is CONNECTING has a record with
\* found = true.
C12_ConnectingImpliesFound ==
    \A r \in Roles : state[r] = "CONNECTING" => info[r].found

C12_Witness ==
    /\ state["lego"] = "CONNECTING"
    /\ info["lego"].found
    /\ pc = "lego_connect"
    /\ ~info["xbox"].found

\* A step that takes role r's state into DISCONNECTED.
EntersDisconnected(r) == state'[r] = "DISCONNECTED" /\ state[r] # "DISCONNECTED"

\* C13: (the claim) a role's state enters DISCONNECTED only in the step of
\* an onDisconnect notification for that role; no call of connect,
\* disconnect, disconnectAll, startScan or stopScan takes it there.
C13_OnlyNotificationDisconnects ==
    [][\A r \in Roles :
         EntersDisconnected(r) => (last'.op = "OnDisconnect" /\ last'.role = r)]_vars

\* C13 (amended): a role's state enters DISCONNECTED only in the step of an
\* onDisconnect notification for that role, or in a disconnect(role) or
\* disconnectAll() called while the role has a client that the transport
\* reports connected; connect, startScan and stopScan never take it there.
C13_NotificationOrLiveDisconnect ==
    [][\A r \in Roles :
         EntersDisconnected(r)
            => \/ (last'.op = "OnDisconnect" /\ last'.role = r)
               \/ /\ \/ (last'.op = "disconnect" /\ last'.role = r)
                     \/ last'.op = "disconnectAll"
                  /\ client[r] /\ clientIsConnected(r)]_vars

C13_Witness ==
    /\ last.op = "disconnect" /\ last.role = "xbox"
    /\ state["xbox"] = "DISCONNECTED"
    /\ link["xbox"] = "term"
    /\ notify["xbox"] /\ ~notified["xbox"]

\* C14: a role's state enters ERROR only in the step where a connect
\* attempt of that role returns failure, or in the step of an init() that
\* failed to create a client; no other call and no callback takes it there.
C14_ErrorOnlyFromConnectOrInit ==
    [][\A r \in Roles :
         (state'[r] = "ERROR" /\ state[r] # "ERROR")
            => \/ /\ last'.op = "connectReturn" /\ last'.role = r
                  /\ ~ack /\ ~connected'[r]
               \/ /\ last'.op = "init"
                  /\ ~(client'["xbox"] /\ client'["lego"])]_vars

C14_Witness ==
    /\ last.op = "connectReturn" /\ last.role = "lego"
    /\ state["lego"] = "ERROR"
    /\ ~connected["lego"]
    /\ client["lego"] /\ client["xbox"]

\* The labels of the steps of connect(role) and disconnect(role): the call,
\* the transport connect it blocks in, the return, and the disconnect.
RoleOps == {"connect", "TConnectDone", "connectReturn", "disconnect"}

\* C16: every step of connect(r) or disconnect(r), successful or not,
\* leaves the other role's state, transport link, pending notification,
\* client and record as they were; in particular a hub connect that fails
\* leaves a controller state of CONNECTED at CONNECTED.
C16_OtherRoleUntouched ==
    [][\A r \in Roles :
         (last'.op \in RoleOps /\ last'.role = r)
            => \A q \in Roles \ {r} :
                 /\ state'[q] = state[q]
                 /\ link'[q] = link[q]
                 /\ notify'[q] = notify[q]
                 /\ client'[q] = client[q]
                 /\ info'[q] = info[q]]_vars

C16_Witness ==
    /\ last.op = "connectReturn" /\ last.role = "lego"
    /\ state["lego"] = "ERROR"
    /\ state["xbox"] = "CONNECTED"
    /\ link["xbox"] = "up"

\* C17: disconnectAll() can be called whenever the caller is between two
\* calls (before init, after a failed init, and in every later state) and
\* does not fault; in the state right after it returns isConnected(r) is
\* false for both roles; and called when the transport reports neither
\* client connected it changes nothing.
C17_DisconnectAllSafe ==
    /\ [](ApiIdle => ENABLED ApiDisconnectAll)
    /\ [](last.op = "disconnectAll" => \A r \in Roles : ~isConnected(r))
    /\ [][last'.op = "disconnectAll"
            => /\ pc' = pc
               /\ (\A r \in Roles : ~(client[r] /\ clientIsConnected(r)))
                     => UNCHANGED <<appVars, mgrVars, tVars>>]_vars

C17_Witness ==
    /\ last.op = "disconnectAll"
    /\ \A r \in Roles : state[r] = "DISCONNECTED" /\ link[r] = "term" /\ notify[r]
    /\ \A r \in Roles : ~isConnected(r)

\* C18: every call of startScan, whatever the state, leaves both records
\* empty (empty name, empty address, rssi 0, found = false) with the scan
\* started; a record is filled only by a callback of a running scan, so the
\* callbacks of a scan start from empty records; and both records are empty
\* right after the manager is constructed.
C18_ScanStartsEmpty ==
    /\ [](last.op = "start" => \A r \in Roles : info[r] = resetDeviceInfo)
    /\ [][/\ last'.op = "startScan"
             => /\ \A r \in Roles :
                     info'[r] = [name |-> <<>>, address |-> 0, rssi |-> 0, found |-> FALSE]
                /\ scanActive' /\ scanning'
          /\ \A r \in Roles :
               (info'[r].found /\ ~info[r].found) => (last'.op = "OnResult" /\ scanActive)]_vars

C18_Witness ==
    /\ last.op = "startScan"
    /\ last.had = Roles
    /\ \A r \in Roles : info[r] = resetDeviceInfo
    /\ scanActive
    /\ state = [r \in Roles |-> "SCANNING"]

\* The labels of the steps that call startScanning().
ScanRequestOps == {"SetupStartScanning", "ScanRetry", "RecoverRescan"}

C20_StopScanLeavesIdle ==
    [][last'.op = "stopScan"
          => /\ ~scanning'
             /\ scanning => \A r \in Roles : ~info'[r].found => state'[r] = "IDLE"
             /\ ~scanning => UNCHANGED <<mgrVars, tVars>>]_vars

\* C20 (amended): after stopScan() returns the scanning flag is false; when
\* it ended a scan, every role whose record has found = false is IDLE if
\* its state was SCANNING and keeps its state otherwise, so none of them
\* is left in SCANNING, and roles with a record keep their state; a
\* stopScan() with no scan in progress changes nothing.
C20_StopScanIdlesScanningRoles ==
    [][last'.op = "stopScan"
          => /\ ~scanning' /\ ~scanActive'
             /\ info' = info
             /\ scanning
                  => \A r \in Roles :
                       /\ (~info[r].found /\ state[r] = "SCANNING") => state'[r] = "IDLE"
                       /\ ~(~info[r].found /\ state[r] = "SCANNING") => state'[r] = state[r]
                       /\ ~info'[r].found => state'[r] # "SCANNING"
             /\ ~scanning => UNCHANGED <<mgrVars, tVars>>]_vars

C20_Witness ==
    /\ last.op = "stopScan"
    /\ last.had = {"lego"}
    /\ ~scanning
    /\ state["lego"] = "IDLE"
    /\ ~info["xbox"].found
    /\ state["xbox"] = "DISCONNECTED"

\* setup() has run initBLE() and it failed: new BLEManager() gave no object,
\* or createClient() gave no client for a role.
InitFailed ==
    /\ pc # "setup_init"
    /\ (~bleManager \/ ~client["xbox"] \/ ~client["lego"])

\* C21: (the claim) once initialization has failed, appState is ERROR and
\* is never SCANNING; appState is SCANNING only when initialization
\* succeeded.
C21_InitFailureIsError ==
    /\ InitFailed => appState = "ERROR"
    /\ appState = "SCANNING" => ~InitFailed

\* The labels of the steps that call handleError with the code in last.role
\* (LoopActiveDisconnected calls it with the disconnect code of its role).
RoutesToRecovery ==
    \/ last'.op = "LoopActiveDisconnected"
    \/ /\ last'.op = "handleError"
       /\ last'.role \in {"ERR_XBOX_DISCONNECTED", "ERR_LEGO_DISCONNECTED"}

RoutesToError ==
    /\ last'.op = "handleError"
    /\ last'.role \notin {"ERR_XBOX_DISCONNECTED", "ERR_LEGO_DISCONNECTED"}

\* C22: (the claim) handleError with one of the two disconnect codes takes
\* the recovery path, which ends with appState SCANNING and a new scan
\* started; with every other code, unknown ones included, it sets appState
\* to ERROR and starts no scan.
C22_Routing ==
    [][/\ RoutesToRecovery => (pc' = "recover_delay" /\ appState' = appState)
       /\ (pc = "recover_delay" /\ pc' # pc)
            => (appState' = "SCANNING" /\ scanActive' /\ scanning')
       /\ RoutesToError
            => (appState' = "ERROR" /\ pc' = pc /\ UNCHANGED <<mgrVars, tVars>>)]_vars

C22_Witness ==
    /\ last.op = "handleError"
    /\ last.role = "UNKNOWN"
    /\ appState = "ERROR"
    /\ isConnected("xbox") /\ isConnected("lego")
    /\ trace = <<"INIT", "SCANNING", "CONNECTING", "CONNECTED", "ACTIVE", "ERROR">>

\* C23: (the claim) once appState is ERROR it stays ERROR in every later
\* state, and while it is ERROR no scan is started and no connect attempt
\* begins.
C23_ErrorIsTerminal ==
    [][appState = "ERROR"
          => /\ appState' = "ERROR"
             /\ scanActive' => scanActive
             /\ pc' \in {"xbox_connect", "lego_connect"} => pc' = pc]_vars

\* C24: appState enters CONNECTING only from SCANNING, in an iteration of
\* case SCANNING in which isScanning() is false and both records have
\* found = true; and while appState is CONNECTING both records are found
\* and no scan is in progress.
C24_ConnectingAfterCompleteScan ==
    /\ [](appState = "CONNECTING" => (foundBothDevices /\ ~scanning /\ ~scanActive))
    /\ [][(appState # "CONNECTING" /\ appState' = "CONNECTING")
            => /\ appState = "SCANNING"
               /\ last'.op = "LoopScanningFound"
               /\ pc = "loop" /\ bleManager
               /\ ~scanning
               /\ info["xbox"].found /\ info["lego"].found]_vars

C24_Witness ==
    /\ appState = "CONNECTING"
    /\ last.op = "LoopScanningFound"
    /\ foundBothDevices /\ ~scanning
    /\ trace = <<"INIT", "SCANNING", "CONNECTING", "CONNECTED", "ACTIVE", "SCANNING">>

\* The labels of the steps that end an incomplete scan and answer it.
IncompleteScanOps == {"ScanComplete", "LoopScanningMissing", "ScanRetry"}

\* C25: a scan that ends with a role missing never takes appState to
\* ERROR: the end of the scan, the iteration of case SCANNING that sees it
\* and the retry after the delay all leave appState at SCANNING, the retry
\* starts another scan, and both are possible every time, however many
\* incomplete scans came before (there is no attempt counter).
C25_UnboundedScanRetry ==
    /\ []((/\ appState = "SCANNING" /\ pc = "loop" /\ bleManager
           /\ ~scanning /\ ~foundBothDevices) => ENABLED LoopScanningMissing)
    /\ [](pc = "scan_delay" => (appState = "SCANNING" /\ ENABLED ScanRetry))
    /\ [][/\ last'.op \in IncompleteScanOps
            => (appState = "SCANNING" /\ appState' = "SCANNING")
          /\ last'.op = "ScanRetry" => (scanActive' /\ scanning')]_vars

C25_Witness ==
    /\ last.op = "ScanRetry"
    /\ last.had = {}
    /\ fault
    /\ appState = "SCANNING"
    /\ scanning /\ scanActive
    /\ trace = <<"INIT", "SCANNING">>

\* C26: the two roles are never CONNECTING at the same time, and when the
\* hub's state is set to CONNECTING the controller's connect has returned:
\* its state has left CONNECTING and its result was success.
C26_NeverBothConnecting ==
    /\ [](~(state["xbox"] = "CONNECTING" /\ state["lego"] = "CONNECTING"))
    /\ [][(state["lego"] # "CONNECTING" /\ state'["lego"] = "CONNECTING")
            => /\ state["xbox"] # "CONNECTING"
               /\ connected["xbox"]
               /\ wasConnected["xbox"]
               /\ pc = "stabilize"]_vars

C26_Witness ==
    /\ state["lego"] = "CONNECTING"
    /\ state["xbox"] = "CONNECTED"
    /\ pc = "lego_connect"
    /\ link["xbox"] = "up"

\* C27: the handling of a disconnect notification for role r sets r's state
\* to DISCONNECTED and changes nothing else: not the other role's state, no
\* record, not the scanning flag, not appState; no scan starts and the
\* polling context does not enter a connect.
C27_NotificationFrame ==
    [][\A r \in Roles :
         (last'.op = "OnDisconnect" /\ last'.role = r)
            => /\ state'[r] = "DISCONNECTED"
               /\ \A q \in Roles \ {r} : state'[q] = state[q]
               /\ info' = info
               /\ scanning' = scanning
               /\ scanActive' = scanActive
               /\ client' = client
               /\ link' = link
               /\ UNCHANGED appVars]_vars

C27_Witness ==
    /\ last.op = "OnDisconnect" /\ last.role = "lego"
    /\ state["lego"] = "DISCONNECTED"
    /\ state["xbox"] = "CONNECTED"
    /\ appState = "ACTIVE"
    /\ foundBothDevices
    /\ ~scanning

\* The labels of the steps taken by the transport and its callbacks.
CallbackOps == {"OnResult", "ScanComplete", "TConnectDone", "PeerLost", "LinkClear",
                "OnDisconnect"}

\* The labels of the steps of setup(), loop() and handleError.
PollingOps == {"SetupInitBLE", "SetupSetState", "SetupStartScanning",
               "LoopScanningFound", "LoopScanningMissing", "ScanRetry",
               "LoopConnecting", "XboxConnectReturn", "ConnectLegoStart",
               "LegoConnectReturn", "LoopConnected", "LoopActiveDisconnected",
               "RecoverRescan", "LoopActiveTick", "LoopError"}

\* C28: appState is written only by steps of setup(), loop() and
\* handleError; no step of the transport or of a callback (advertisement,
\* scan completion, connect completion, disconnect notification) changes
\* it, wherever it falls between the steps of the polling context.
C28_SingleWriter ==
    [][/\ appState' # appState => last'.op \in PollingOps
       /\ last'.op \in CallbackOps => (appState' = appState /\ trace' = trace)]_vars

C28_Witness ==
    /\ last.op = "OnDisconnect" /\ last.role = "xbox"
    /\ pc = "lego_connect"
    /\ appState = "CONNECTING"
    /\ state["xbox"] = "DISCONNECTED"

\* The labels of the manager's calls and callbacks that are not the
\* Discovery Scanner's two writers.
NonScannerOps == {"init", "stopScan", "connect", "TConnectDone", "connectReturn",
                  "disconnect", "disconnectAll", "ScanComplete", "PeerLost",
                  "LinkClear", "OnDisconnect"}

\* C29: a record changes only in a step of startScan (the reset) or of the
\* advertisement callback; connect, disconnect, disconnectAll, stopScan,
\* the disconnect notification and the scan completion leave both records
\* as they are.
C29_RecordWriters ==
    [][/\ (\E r \in Roles : info'[r] # info[r]) => last'.op \in {"startScan", "OnResult"}
       /\ last'.op \in NonScannerOps => info' = info]_vars

C29_Witness ==
    /\ last.op = "disconnectAll"
    /\ \A r \in Roles : info[r].found /\ state[r] = "DISCONNECTED"
    /\ info["xbox"].address # info["lego"].address

(***************************************************************************)
(* loop()'s periodic timers (main.cpp 90-104)                              *)
(*                                                                         *)
(* Every iteration reads millis() and runs the display and the serial      *)
(* check before its switch.  The checks read and write only the clock      *)
(* value and their own static, so they are followed here on their own,     *)
(* with the rest of the program held still, over the clock values around   *)
(* the wrap of the 32-bit counter and around the end of setup().           *)
(***************************************************************************)
\* unsigned long on the ESP32 is 32 bits wide.  A value is held as its two
\* 16-bit halves <<high, low>>, and the arithmetic is done half by half
\* with carry and borrow, modulo 2^32.
Half == 2^16

\* The 32-bit value of n, for 0 <= n < 2^31.
U32(n) == <<(n \div Half) % Half, n % Half>>

\* a + b, a - b and a < b on unsigned 32-bit values
Add32(a, b) ==
    <<(a[1] + b[1] + ((a[2] + b[2]) \div Half)) % Half, (a[2] + b[2]) % Half>>

Sub32(a, b) ==
    <<(a[1] - b[1] - (IF a[2] < b[2] THEN 1 ELSE 0) + 2 * Half) % Half,
      (a[2] - b[2] + Half) % Half>>

Less32(a, b) == a[1] < b[1] \/ (a[1] = b[1] /\ a[2] < b[2])

DISPLAY_UPDATE_FREQUENCY_HZ == 5
DISPLAY_UPDATE_PERIOD_MS == 1000 \div DISPLAY_UPDATE_FREQUENCY_HZ
SERIAL_UPDATE_FREQUENCY_HZ == 1
SERIAL_UPDATE_PERIOD_MS == 1000 \div SERIAL_UPDATE_FREQUENCY_HZ

\* setup()'s delay(1000): the earliest clock value a loop iteration can read.
SetupDelayMillis == 1000

\* What one iteration can take: its closing delay(1), alone or after the
\* delay(1000), delay(2000) or delay(3000) of its case.
IterationMillis == {1, 1 + 1000, 1 + 2000, 1 + 3000}

\* The clock values followed: the last MillisBeforeWrap milliseconds before
\* the counter wraps and the first MillisAfterWrap after it.
MillisBeforeWrap == 300
MillisAfterWrap == 1100

InWindow(now) ==
    Less32(Add32(now, U32(MillisBeforeWrap)), U32(MillisBeforeWrap + MillisAfterWrap))

\* Whether at least period ms lie between clock value from and clock value
\* to (less than one wrap apart).
PeriodElapsed(from, to, period) == ~Less32(Sub32(to, from), U32(period))

\* if (lastUpdate < (currentMillis - PERIOD)), in unsigned arithmetic
TimerDue(lastUpdate, now, period) == Less32(lastUpdate, Sub32(now, U32(period)))

\* The timer part of one iteration that starts elapsed ms after the last.
LoopTimers(elapsed) ==
    /\ InWindow(currentMillis)
    /\ currentMillis' = Add32(currentMillis, U32(elapsed))
    /\ lastDisplayUpdate' =
           IF TimerDue(lastDisplayUpdate, currentMillis', DISPLAY_UPDATE_PERIOD_MS)
           THEN currentMillis' ELSE lastDisplayUpdate
    /\ lastSerialUpdate' =
           IF TimerDue(lastSerialUpdate, currentMillis', SERIAL_UPDATE_PERIOD_MS)
           THEN currentMillis' ELSE lastSerialUpdate
    /\ dispatched' =
           {t \in {"display"} :
               TimerDue(lastDisplayUpdate, currentMillis', DISPLAY_UPDATE_PERIOD_MS)}
           \cup {t \in {"serial"} :
               TimerDue(lastSerialUpdate, currentMillis', SERIAL_UPDATE_PERIOD_MS)}
    /\ UNCHANGED <<appVars, mgrVars, tVars, histVars>>

\* Either setup() has just ended, or the program has run for weeks and its
\* latest iteration, MillisBeforeWrap ms before the wrap, called both
\* updates.
InitTimer ==
    /\ InitApp
    /\ \/ /\ currentMillis = U32(SetupDelayMillis)
          /\ lastDisplayUpdate = <<0, 0>>
          /\ lastSerialUpdate = <<0, 0>>
          /\ dispatched = {}
       \/ /\ currentMillis = Sub32(<<0, 0>>, U32(MillisBeforeWrap))
          /\ lastDisplayUpdate = currentMillis
          /\ lastSerialUpdate = currentMillis
          /\ dispatched = {"display", "serial"}

NextTimer == \E elapsed \in IterationMillis : LoopTimers(elapsed)

SpecTimer == InitTimer /\ [][NextTimer]_vars

\* C30: an iteration calls the display update or the status report only
\* when at least one full period has elapsed since it last called it,
\* whatever the value of the 32-bit millisecond counter.
C30_DispatchOnlyAfterPeriod ==
    [][ /\ "display" \in dispatched' =>
              PeriodElapsed(lastDisplayUpdate, currentMillis', DISPLAY_UPDATE_PERIOD_MS)
        /\ "serial" \in dispatched' =>
              PeriodElapsed(lastSerialUpdate, currentMillis', SERIAL_UPDATE_PERIOD_MS) ]_vars

(***************************************************************************)
(* Properties of the scan, the connect sequence and the error state        *)
(***************************************************************************)
\* C31: a role whose state is SCANNING has a scan in progress
\* (isScanning() is true): a scan that ends, by its completion notification
\* or by early termination, leaves no role's state at SCANNING.
C31_ScanningStateMeansScanning ==
    \A r \in Roles : state[r] = "SCANNING" => scanning

\* C32: connectToXbox / connectToLego call the transport's connect only on
\* a client that init created: a connect that has passed its found check
\* and written CONNECTING never goes on through an absent client.
C32_ConnectOnlyThroughCreatedClient ==
    [][\A r \in Roles :
          (/\ last'.op \in {"LoopConnecting", "ConnectLegoStart"}
           /\ last'.role = r
           /\ connectToEntry(r) # "notfound")
          => (client[r] /\ pc' # "crashed")]_vars

\* C33: whenever the application state is CONNECTED, isConnected is true
\* for both roles, whatever disconnect notifications arrived during the
\* two-step connect sequence.
C33_ConnectedMeansBothConnected ==
    appState = "CONNECTED" => areBothConnected

\* C34: once a disconnect notification was delivered for a role, the role's
\* state is not CONNECTED until the transport acknowledges a later connect
\* of that role, also when the notification comes between the
\* acknowledgment and the write of CONNECTED.
C34_NoLostNotification ==
    \A r \in Roles : notifiedAfterAck[r] => state[r] # "CONNECTED"

\* C35: whenever the application state is ERROR, neither role has a live
\* transport connection; in particular a connect sequence that fails at
\* the hub leaves no connected controller behind.
C35_ErrorMeansNoLiveLink ==
    appState = "ERROR" => \A r \in Roles : link[r] # "up"

\* C36: whenever both Device Records are found they hold different
\* addresses: no advertisement fills both records, so the two connects never
\* go to the same peripheral.
C36_RecordsDiffer ==
    foundBothDevices => info["xbox"].address # info["lego"].address

\* C37: a scan runs only while the application state is SCANNING
\* (isScanning() implies appState = SCANNING), and every startScan the
\* program calls, from setup(), from the retry after an incomplete scan or
\* from the recovery out of ACTIVE, is called with isScanning() false and
\* with the application state already SCANNING.
C37_ScanOnlyInScanning ==
    /\ [](scanning => appState = "SCANNING")
    /\ [][(last'.op \in ScanRequestOps /\ bleManager)
            => (~scanning /\ ~scanActive /\ scanning' /\ appState' = "SCANNING")]_vars

C37_Witness ==
    /\ last.op = "RecoverRescan"
    /\ scanning /\ scanActive
    /\ appState = "SCANNING"
    /\ "ACTIVE" \in {trace[i] : i \in 1..Len(trace)}

(***************************************************************************)
(* Liveness.  loop() is called again and again by the Arduino core, and    *)
(* the transport's host task delivers what it owes: weak fairness of the   *)
(* polling context and of each transport callback.  The peer dropping a    *)
(* connection is the environment's choice and has no fairness.             *)
(***************************************************************************)
\* One step of the polling context: setup() or an iteration of loop().
PollingStep ==
    \/ SetupInitBLE
    \/ SetupSetState
    \/ SetupStartScanning
    \/ LoopScanningFound
    \/ LoopScanningMissing
    \/ ScanRetry
    \/ LoopConnecting
    \/ XboxConnectReturn
    \/ ConnectLegoStart
    \/ LegoConnectReturn
    \/ LoopConnected
    \/ LoopActiveDisconnected
    \/ RecoverRescan
    \/ LoopActiveTick
    \/ LoopError

Fairness ==
    /\ WF_vars(PollingStep)
    /\ WF_vars(OnResult)
    /\ WF_vars(ScanComplete)
    /\ \A r \in Roles : WF_vars(TConnectDone(r))
    /\ \A r \in Roles : WF_vars(LinkClear(r))
    /\ \A r \in Roles : WF_vars(OnDisconnect(r))

SpecLive == Init /\ [][Next]_vars /\ Fairness

\* Initialization succeeded: the manager and both clients exist.
InitSucceeded ==
    pc # "setup_init" => (bleManager /\ client["xbox"] /\ client["lego"])

\* No scan ran out of time: both peripherals were reported before.
NoScanTimeout == last.op # "ScanComplete"

\* The transport connect that has just completed succeeded.
ConnectSucceeded == last.op = "TConnectDone" => ack

\* The latest step is not a peer dropping its connection.
NoPeerLost == last.op # "PeerLost"

\* C38: if initialization succeeds, every scan reports both peripherals
\* before its duration elapses, every transport connect succeeds and from
\* some point on no peer drops its connection, then the application state
\* becomes ACTIVE and stays there: from startup when no connection is ever
\* dropped, and after the recovery from the last drop otherwise.
C38_EventuallyActive ==
    ([]InitSucceeded /\ []NoScanTimeout /\ []ConnectSucceeded /\ <>[]NoPeerLost)
        => <>[](appState = "ACTIVE")

C38_Witness ==
    /\ appState = "ACTIVE"
    /\ areBothConnected
    /\ trace = <<"INIT", "SCANNING", "CONNECTING", "CONNECTED", "ACTIVE", "SCANNING">>
    /\ fault

====
